---- MODULE Spec2Model ----
(***************************************************************************)
(* Model of the Discovery and ThirdPartyResources clients of the k8s       *)
(* client library: argument validation, URL and codec selection of the     *)
(* one-shot operations, and the watcher adapters APIWatcher and            *)
(* ThirdPartyResourceWatcher over the shared watch stream decoder.         *)
(***************************************************************************)
EXTENDS Naturals, Sequences, FiniteSets

VARIABLES
    tpr,          \* the ThirdPartyResources client: its apiGroup and apiVersion
    lastCall,     \* the last client operation called, its arguments and its result
    requests,     \* the requests handed to the dispatcher, in order
    ctxCancelled, \* whether the caller's context has been cancelled
    w,            \* the watcher returned by the last successful watch-open, and its stream
    blocked,      \* a Next() call is suspended in the stream read
    nexts,        \* number of Next() calls on the watcher that have returned
    closes,       \* number of Close() calls on the watcher
    delivered,    \* the (event, object) pairs Next() has returned without error
    broken,       \* a Next() on the watcher has returned a framing error
    last          \* the result of the last watcher call (Next or Close)

vars == <<tpr, lastCall, requests, ctxCancelled, w, blocked, nexts, closes, delivered, broken, last>>

clientVars == <<tpr, lastCall, requests>>
watchVars == <<w, blocked, nexts, closes, delivered, broken, last>>

-----------------------------------------------------------------------------
(* Bounds and input sets *)

MaxRequests == 1
MaxFrames == 2
MaxCloses == 2
MaxNexts == MaxFrames + 2

Groups == {"", "g"}
Versions == {"", "v"}
Resources == {"", "r"}
Namespaces == {"", "ns"}
Names == {"", "n"}
Contexts == {"ctx"}

-----------------------------------------------------------------------------
(* Errors.  An error is a kind and the words of its message. *)

NoErr == [kind |-> "nil", msg |-> <<>>]
ErrorsNew(words) == [kind |-> "ValidationError", msg |-> words]
APIError == [kind |-> "APIError", msg |-> <<"status">>]
CancelledError == [kind |-> "Cancelled", msg |-> <<"context", "canceled">>]
StreamClosedError == [kind |-> "StreamClosed", msg |-> <<"stream", "closed">>]
FramingError == [kind |-> "FramingError", msg |-> <<"framing">>]
DecodeError == [kind |-> "DecodeError", msg |-> <<"proto", "unmarshal">>]

-----------------------------------------------------------------------------
(* checkResource *)

checkResource_NoNamespaceCheck(apiGroup, apiVersion, resource, namespace, name) ==
    IF apiGroup = "" THEN ErrorsNew(<<"no", "api", "group", "provided">>)
    ELSE IF apiVersion = "" THEN ErrorsNew(<<"no", "api", "version", "provided">>)
    ELSE IF resource = "" THEN ErrorsNew(<<"no", "resource", "version", "provided">>)
    ELSE IF name = "" THEN ErrorsNew(<<"no", "resource", "name", "provided">>)
    ELSE NoErr

checkResource(apiGroup, apiVersion, resource, namespace, name) ==
    IF apiGroup = "" THEN ErrorsNew(<<"no", "api", "group", "provided">>)
    ELSE IF apiVersion = "" THEN ErrorsNew(<<"no", "api", "version", "provided">>)
    ELSE IF resource = "" THEN ErrorsNew(<<"no", "resource", "version", "provided">>)
    ELSE IF namespace = "" THEN ErrorsNew(<<"no", "namespace", "provided">>)
    ELSE IF name = "" THEN ErrorsNew(<<"no", "resource", "name", "provided">>)
    ELSE NoErr

-----------------------------------------------------------------------------
(* URLs and the dispatcher's entry points.  A URL is its path segments. *)

RECURSIVE NonEmpty(_)
NonEmpty(s) ==
    IF s = <<>> THEN <<>>
    ELSE IF Head(s) = "" THEN NonEmpty(Tail(s))
    ELSE <<Head(s)>> \o NonEmpty(Tail(s))

\* path.Join drops empty elements and joins the rest with "/"
pathJoin(elems) == NonEmpty(elems)

urlForPath(p) == p

urlFor(apiGroup, apiVersion, namespace, resource, name) ==
    <<"apis", apiGroup, apiVersion, "namespaces", namespace, resource>>
        \o (IF name = "" THEN <<>> ELSE <<name>>)

jsonCodec == "json"
pbCodec == "pb"

NoReq == [verb |-> "none", codec |-> "none", method |-> "none", url |-> <<>>, ctx |-> "none"]

get(ctx, codec, url) ==
    [verb |-> "get", codec |-> codec, method |-> "GET", url |-> url, ctx |-> ctx]
create(ctx, codec, method, url) ==
    [verb |-> "create", codec |-> codec, method |-> method, url |-> url, ctx |-> ctx]
delete(ctx, codec, url) ==
    [verb |-> "delete", codec |-> codec, method |-> "DELETE", url |-> url, ctx |-> ctx]
watch(ctx, url) ==
    [verb |-> "watch", codec |-> "none", method |-> "GET", url |-> url, ctx |-> ctx]

\* What a dispatched one-shot request can come back with.
DispatchOutcomes == IF ctxCancelled THEN {CancelledError} ELSE {NoErr, APIError}

-----------------------------------------------------------------------------
(* ThirdPartyResources: each operation yields its error and the request it   *)
(* handed to the dispatcher (NoReq when it returned before dispatching).     *)
(* out is the dispatcher's answer.                                           *)

ThirdPartyResources(apiGroup, apiVersion) == [apiGroup |-> apiGroup, apiVersion |-> apiVersion]

Create(t, ctx, resource, namespace, out) ==
    LET err == checkResource(t.apiGroup, t.apiVersion, resource, namespace, "not required") IN
    IF err # NoErr THEN [err |-> err, req |-> NoReq]
    ELSE [err |-> out,
          req |-> create(ctx, jsonCodec, "POST",
                         urlFor(t.apiGroup, t.apiVersion, namespace, resource, ""))]

Update(t, ctx, resource, namespace, name, out) ==
    LET err == checkResource(t.apiGroup, t.apiVersion, resource, namespace, "not required") IN
    IF err # NoErr THEN [err |-> err, req |-> NoReq]
    ELSE [err |-> out,
          req |-> create(ctx, jsonCodec, "PUT",
                         urlFor(t.apiGroup, t.apiVersion, namespace, resource, name))]

Get(t, ctx, resource, namespace, name, out) ==
    LET err == checkResource(t.apiGroup, t.apiVersion, resource, namespace, name) IN
    IF err # NoErr THEN [err |-> err, req |-> NoReq]
    ELSE [err |-> out,
          req |-> get(ctx, jsonCodec,
                      urlFor(t.apiGroup, t.apiVersion, namespace, resource, name))]

Delete(t, ctx, resource, namespace, name, out) ==
    LET err == checkResource(t.apiGroup, t.apiVersion, resource, namespace, name) IN
    IF err # NoErr THEN [err |-> err, req |-> NoReq]
    ELSE [err |-> out,
          req |-> delete(ctx, jsonCodec,
                         urlFor(t.apiGroup, t.apiVersion, namespace, resource, name))]

List_NoCheck(t, ctx, resource, namespace, out) ==
    [err |-> out,
     req |-> get(ctx, jsonCodec,
                 urlFor(t.apiGroup, t.apiVersion, namespace, resource, ""))]

List(t, ctx, resource, namespace, out) ==
    LET err == checkResource(t.apiGroup, t.apiVersion, resource, namespace, "name not required") IN
    IF err # NoErr THEN [err |-> err, req |-> NoReq]
    ELSE [err |-> out,
          req |-> get(ctx, jsonCodec,
                      urlFor(t.apiGroup, t.apiVersion, namespace, resource, ""))]

Watch(t, ctx, resource, namespace, out) ==
    LET err == checkResource(t.apiGroup, t.apiVersion, resource, namespace, "name not required") IN
    IF err # NoErr THEN [err |-> err, req |-> NoReq]
    ELSE [err |-> out,
          req |-> watch(ctx, urlFor(t.apiGroup, t.apiVersion, namespace, resource, ""))]

-----------------------------------------------------------------------------
(* Discovery *)

Version(ctx, out) ==
    [err |-> out, req |-> get(ctx, jsonCodec, urlForPath(<<"version">>))]

APIGroups_Json(ctx, out) ==
    [err |-> out, req |-> get(ctx, jsonCodec, urlForPath(<<"apis">>))]

APIGroups(ctx, out) ==
    [err |-> out, req |-> get(ctx, pbCodec, urlForPath(<<"apis">>))]

APIGroup(ctx, name, out) ==
    [err |-> out, req |-> get(ctx, pbCodec, urlForPath(pathJoin(<<"apis", name>>)))]

APIResources(ctx, groupName, groupVersion, out) ==
    [err |-> out,
     req |-> get(ctx, pbCodec, urlForPath(pathJoin(<<"apis", groupName, groupVersion>>)))]

APIWatch_BackgroundCtx(ctx, groupName, groupVersion, out) ==
    [err |-> out,
     req |-> watch("background", urlForPath(pathJoin(<<"apis", groupName, groupVersion>>)))]

APIWatch(ctx, groupName, groupVersion, out) ==
    [err |-> out,
     req |-> watch(ctx, urlForPath(pathJoin(<<"apis", groupName, groupVersion>>)))]

-----------------------------------------------------------------------------
(* The watch stream.  A frame is its framing ("ok", "badmagic" or          *)
(* "truncated"), the type of the event it encodes and the raw payload.     *)

Frames ==
    { [framing |-> "ok", type |-> "ADDED", raw |-> "pb:pods"],
      [framing |-> "ok", type |-> "MODIFIED", raw |-> "pb:nodes"],
      [framing |-> "ok", type |-> "DELETED", raw |-> "junk"],
      [framing |-> "badmagic", type |-> "", raw |-> ""],
      [framing |-> "truncated", type |-> "", raw |-> ""] }

NilEvent == [type |-> "nil"]
NilUnknown == [raw |-> "nil"]
NilObj == [kind |-> "nil", val |-> ""]

NoWatcher ==
    [kind |-> "none", state |-> "none", ctx |-> "none", arrived |-> <<>>, pos |-> 0, ended |-> FALSE]

\* The watcher a successful watch-open returns: Open, on the request's context.
NewWatcher(kind, req) ==
    [kind |-> kind, state |-> "Open", ctx |-> req.ctx, arrived |-> <<>>, pos |-> 0, ended |-> FALSE]

\* The context governing the watcher's connection has been cancelled.
Cancelled(wt) == wt.ctx \in Contexts /\ ctxCancelled

\* The read has nothing to return yet: the call stays suspended.
WouldBlock(wt) ==
    /\ wt.state = "Open"
    /\ ~Cancelled(wt)
    /\ wt.pos = Len(wt.arrived)
    /\ ~wt.ended

\* watcher.next, for a call that does not (or no longer) block.
watcherNext(wt) ==
    IF wt.state = "Closed"
    THEN [w |-> wt, event |-> NilEvent, unknown |-> NilUnknown,
          err |-> StreamClosedError, io |-> FALSE]
    ELSE IF Cancelled(wt)
    THEN [w |-> [wt EXCEPT !.state = "Closed"], event |-> NilEvent, unknown |-> NilUnknown,
          err |-> CancelledError, io |-> TRUE]
    ELSE IF wt.pos < Len(wt.arrived)
    THEN LET f == wt.arrived[wt.pos + 1] IN
         IF f.framing = "ok"
         THEN [w |-> [wt EXCEPT !.pos = @ + 1], event |-> [type |-> f.type],
               unknown |-> [raw |-> f.raw], err |-> NoErr, io |-> TRUE]
         ELSE [w |-> [wt EXCEPT !.state = "Closed"], event |-> NilEvent,
               unknown |-> NilUnknown, err |-> FramingError, io |-> TRUE]
    ELSE [w |-> [wt EXCEPT !.state = "Closed"], event |-> NilEvent, unknown |-> NilUnknown,
          err |-> StreamClosedError, io |-> TRUE]

\* watcher.Close: releases the stream; closing twice is not an error.
watcherClose(wt) == [w |-> [wt EXCEPT !.state = "Closed"], err |-> NoErr]

\* proto.Unmarshal of a payload into an unversioned.APIResource
protoUnmarshal(raw) ==
    IF raw = "pb:pods" THEN [obj |-> [kind |-> "APIResource", val |-> "pods"], err |-> NoErr]
    ELSE IF raw = "pb:nodes" THEN [obj |-> [kind |-> "APIResource", val |-> "nodes"], err |-> NoErr]
    ELSE [obj |-> NilObj, err |-> DecodeError]

-----------------------------------------------------------------------------
(* The watcher adapters *)

APIWatcherNext_DoubleRead(wt) ==
    LET r0 == watcherNext(wt)
        r == IF r0.err = NoErr /\ ~WouldBlock(r0.w) THEN watcherNext(r0.w) ELSE r0 IN
    IF r.err # NoErr
    THEN [w |-> r.w, event |-> NilEvent, obj |-> NilObj, err |-> r.err, io |-> r.io]
    ELSE LET u == protoUnmarshal(r.unknown.raw) IN
         IF u.err # NoErr
         THEN [w |-> r.w, event |-> NilEvent, obj |-> NilObj, err |-> u.err, io |-> r.io]
         ELSE [w |-> r.w, event |-> r.event, obj |-> u.obj, err |-> NoErr, io |-> r.io]

APIWatcherNext_CloseOnDecodeError(wt) ==
    LET r == watcherNext(wt) IN
    IF r.err # NoErr
    THEN [w |-> r.w, event |-> NilEvent, obj |-> NilObj, err |-> r.err, io |-> r.io]
    ELSE LET u == protoUnmarshal(r.unknown.raw) IN
         IF u.err # NoErr
         THEN [w |-> watcherClose(r.w).w, event |-> NilEvent, obj |-> NilObj,
               err |-> u.err, io |-> r.io]
         ELSE [w |-> r.w, event |-> r.event, obj |-> u.obj, err |-> NoErr, io |-> r.io]

APIWatcherNext_WrapError(wt) ==
    LET r == watcherNext(wt) IN
    IF r.err # NoErr
    THEN [w |-> r.w, event |-> NilEvent, obj |-> NilObj, err |-> DecodeError, io |-> r.io]
    ELSE LET u == protoUnmarshal(r.unknown.raw) IN
         IF u.err # NoErr
         THEN [w |-> r.w, event |-> NilEvent, obj |-> NilObj, err |-> u.err, io |-> r.io]
         ELSE [w |-> r.w, event |-> r.event, obj |-> u.obj, err |-> NoErr, io |-> r.io]

APIWatcherNext(wt) ==
    LET r == watcherNext(wt) IN
    IF r.err # NoErr
    THEN [w |-> r.w, event |-> NilEvent, obj |-> NilObj, err |-> r.err, io |-> r.io]
    ELSE LET u == protoUnmarshal(r.unknown.raw) IN
         IF u.err # NoErr
         THEN [w |-> r.w, event |-> NilEvent, obj |-> NilObj, err |-> u.err, io |-> r.io]
         ELSE [w |-> r.w, event |-> r.event, obj |-> u.obj, err |-> NoErr, io |-> r.io]

APIWatcherClose_NoDelegate(wt) == [w |-> wt, err |-> NoErr]

APIWatcherClose(wt) == watcherClose(wt)

\* resp is declared and never assigned: the object returned is nil
ThirdPartyResourceWatcherNext(wt) ==
    LET r == watcherNext(wt) IN
    IF r.err # NoErr
    THEN [w |-> r.w, event |-> NilEvent, obj |-> NilObj, err |-> r.err, io |-> r.io]
    ELSE [w |-> r.w, event |-> r.event, obj |-> NilObj, err |-> NoErr, io |-> r.io]

ThirdPartyResourceWatcherClose(wt) == watcherClose(wt)

-----------------------------------------------------------------------------
(* State *)

TPRClients == {ThirdPartyResources(g, v) : g \in Groups, v \in Versions}

NoCall ==
    [client |-> "none", op |-> "none", apiGroup |-> "", apiVersion |-> "", resource |-> "",
     namespace |-> "", name |-> "", err |-> NoErr, req |-> NoReq, opened |-> FALSE]

Call(client, op, apiGroup, apiVersion, resource, namespace, name, r) ==
    [client |-> client, op |-> op, apiGroup |-> apiGroup, apiVersion |-> apiVersion,
     resource |-> resource, namespace |-> namespace, name |-> name,
     err |-> r.err, req |-> r.req,
     opened |-> (r.req.verb = "watch" /\ r.err = NoErr)]

NoPrev == [op |-> "none", err |-> NoErr, frame |-> 0]

NoLast ==
    [op |-> "none", event |-> NilEvent, obj |-> NilObj, err |-> NoErr, io |-> FALSE,
     resumed |-> FALSE, frame |-> 0, afterClose |-> FALSE, afterFraming |-> FALSE, prev |-> NoPrev]

FreshWatch ==
    /\ blocked = FALSE
    /\ nexts = 0
    /\ closes = 0
    /\ delivered = <<>>
    /\ broken = FALSE
    /\ last = NoLast

Init ==
    /\ tpr \in TPRClients
    /\ lastCall = NoCall
    /\ requests = <<>>
    /\ ctxCancelled = FALSE
    /\ w = NoWatcher
    /\ FreshWatch

-----------------------------------------------------------------------------
(* Client operations *)

\* An operation returns r: the call is recorded, its request (if any) has gone
\* to the dispatcher, and a watch-open that succeeded has returned a new watcher.
Return(c, kind) ==
    /\ (c.req # NoReq => Len(requests) < MaxRequests)
    /\ lastCall' = c
    /\ requests' = IF c.req = NoReq THEN requests ELSE Append(requests, c.req)
    /\ IF c.opened
       THEN /\ w' = NewWatcher(kind, c.req)
            /\ blocked' = FALSE
            /\ nexts' = 0
            /\ closes' = 0
            /\ delivered' = <<>>
            /\ broken' = FALSE
            /\ last' = NoLast
       ELSE UNCHANGED watchVars
    /\ UNCHANGED <<tpr, ctxCancelled>>

DoCheckResource ==
    \E g \in Groups, v \in Versions, r \in Resources, ns \in Namespaces, n \in Names :
        /\ lastCall' = Call("func", "checkResource", g, v, r, ns, n,
                             [err |-> checkResource(g, v, r, ns, n), req |-> NoReq])
        /\ UNCHANGED <<tpr, requests, ctxCancelled, watchVars>>

DoCreate ==
    \E ctx \in Contexts, r \in Resources, ns \in Namespaces, out \in DispatchOutcomes :
        Return(Call("tpr", "Create", tpr.apiGroup, tpr.apiVersion, r, ns, "",
                    Create(tpr, ctx, r, ns, out)), "none")

DoUpdate ==
    \E ctx \in Contexts, r \in Resources, ns \in Namespaces, n \in Names,
       out \in DispatchOutcomes :
        Return(Call("tpr", "Update", tpr.apiGroup, tpr.apiVersion, r, ns, n,
                    Update(tpr, ctx, r, ns, n, out)), "none")

DoGet ==
    \E ctx \in Contexts, r \in Resources, ns \in Namespaces, n \in Names,
       out \in DispatchOutcomes :
        Return(Call("tpr", "Get", tpr.apiGroup, tpr.apiVersion, r, ns, n,
                    Get(tpr, ctx, r, ns, n, out)), "none")

DoDelete ==
    \E ctx \in Contexts, r \in Resources, ns \in Namespaces, n \in Names,
       out \in DispatchOutcomes :
        Return(Call("tpr", "Delete", tpr.apiGroup, tpr.apiVersion, r, ns, n,
                    Delete(tpr, ctx, r, ns, n, out)), "none")

DoList ==
    \E ctx \in Contexts, r \in Resources, ns \in Namespaces, out \in DispatchOutcomes :
        Return(Call("tpr", "List", tpr.apiGroup, tpr.apiVersion, r, ns, "",
                    List(tpr, ctx, r, ns, out)), "none")

DoWatch ==
    \E ctx \in Contexts, r \in Resources, ns \in Namespaces, out \in DispatchOutcomes :
        Return(Call("tpr", "Watch", tpr.apiGroup, tpr.apiVersion, r, ns, "",
                    Watch(tpr, ctx, r, ns, out)), "tpr")

DoVersion ==
    \E ctx \in Contexts, out \in DispatchOutcomes :
        Return(Call("discovery", "Version", "", "", "", "", "", Version(ctx, out)), "none")

DoAPIGroups ==
    \E ctx \in Contexts, out \in DispatchOutcomes :
        Return(Call("discovery", "APIGroups", "", "", "", "", "", APIGroups(ctx, out)), "none")

DoAPIGroup ==
    \E ctx \in Contexts, n \in Groups, out \in DispatchOutcomes :
        Return(Call("discovery", "APIGroup", n, "", "", "", "", APIGroup(ctx, n, out)), "none")

DoAPIResources ==
    \E ctx \in Contexts, g \in Groups, v \in Versions, out \in DispatchOutcomes :
        Return(Call("discovery", "APIResources", g, v, "", "", "",
                    APIResources(ctx, g, v, out)), "none")

DoAPIWatch ==
    \E ctx \in Contexts, g \in Groups, v \in Versions, out \in DispatchOutcomes :
        Return(Call("discovery", "APIWatch", g, v, "", "", "",
                    APIWatch(ctx, g, v, out)), "api")

Next ==
    \/ DoCheckResource
    \/ DoCreate
    \/ DoUpdate
    \/ DoGet
    \/ DoDelete
    \/ DoList
    \/ DoWatch
    \/ DoVersion
    \/ DoAPIGroups
    \/ DoAPIGroup
    \/ DoAPIResources
    \/ DoAPIWatch

Spec == Init /\ [][Next]_vars

-----------------------------------------------------------------------------
(* The life of one watcher, from the watch-open that returned it *)

WatchInit ==
    /\ tpr \in {t \in TPRClients : t.apiGroup # "" /\ t.apiVersion # ""}
    /\ ctxCancelled = FALSE
    /\ FreshWatch
    /\ \/ \E ctx \in Contexts, r \in Resources, ns \in Namespaces :
            LET c == Call("tpr", "Watch", tpr.apiGroup, tpr.apiVersion, r, ns, "",
                          Watch(tpr, ctx, r, ns, NoErr)) IN
            /\ c.opened
            /\ lastCall = c
            /\ requests = <<c.req>>
            /\ w = NewWatcher("tpr", c.req)
       \/ \E ctx \in Contexts, g \in Groups, v \in Versions :
            LET c == Call("discovery", "APIWatch", g, v, "", "", "",
                          APIWatch(ctx, g, v, NoErr)) IN
            /\ c.opened
            /\ lastCall = c
            /\ requests = <<c.req>>
            /\ w = NewWatcher("api", c.req)

AdapterNext(wt) ==
    IF wt.kind = "api" THEN APIWatcherNext(wt) ELSE ThirdPartyResourceWatcherNext(wt)

AdapterClose(wt) ==
    IF wt.kind = "api" THEN APIWatcherClose(wt) ELSE ThirdPartyResourceWatcherClose(wt)

\* The frame the read of a call meets (0: none, the read ends without a frame).
Hit(wt) ==
    IF wt.state = "Open" /\ ~Cancelled(wt) /\ wt.pos < Len(wt.arrived) THEN wt.pos + 1 ELSE 0

\* A Next() call returns r to its caller.
Finish(r, afterClose, resumed) ==
    /\ w' = r.w
    /\ blocked' = FALSE
    /\ nexts' = nexts + 1
    /\ delivered' = IF r.err = NoErr
                    THEN Append(delivered, [event |-> r.event, obj |-> r.obj])
                    ELSE delivered
    /\ broken' = (broken \/ r.err.kind = "FramingError")
    /\ last' = [op |-> "Next", event |-> r.event, obj |-> r.obj, err |-> r.err,
                io |-> (r.io \/ resumed), resumed |-> resumed, frame |-> Hit(w), afterClose |-> afterClose,
                afterFraming |-> broken,
                prev |-> [op |-> last.op, err |-> last.err, frame |-> last.frame]]

CallNext ==
    /\ w.kind # "none"
    /\ ~blocked
    /\ nexts < MaxNexts
    /\ IF WouldBlock(w)
       THEN /\ blocked' = TRUE
            /\ UNCHANGED <<w, nexts, closes, delivered, broken, last>>
       ELSE /\ Finish(AdapterNext(w), closes > 0, FALSE)
            /\ UNCHANGED closes
    /\ UNCHANGED <<clientVars, ctxCancelled>>

ResumeNext ==
    /\ blocked
    /\ ~WouldBlock(w)
    /\ Finish(AdapterNext(w), FALSE, TRUE)
    /\ UNCHANGED <<clientVars, ctxCancelled, closes>>

CallClose ==
    /\ w.kind # "none"
    /\ closes < MaxCloses
    /\ LET r == AdapterClose(w) IN
       /\ w' = r.w
       /\ last' = [op |-> "Close", event |-> NilEvent, obj |-> NilObj, err |-> r.err,
                   io |-> FALSE, resumed |-> FALSE, frame |-> 0, afterClose |-> (closes > 0),
                   afterFraming |-> broken,
                   prev |-> [op |-> last.op, err |-> last.err, frame |-> last.frame]]
    /\ closes' = closes + 1
    /\ UNCHANGED <<clientVars, ctxCancelled, blocked, nexts, delivered, broken>>

\* The server writes one more frame; a truncated frame is the last thing it writes.
ServerSend ==
    /\ w.state = "Open"
    /\ ~Cancelled(w)
    /\ ~w.ended
    /\ Len(w.arrived) < MaxFrames
    /\ \E f \in Frames :
         w' = [w EXCEPT !.arrived = Append(@, f), !.ended = (f.framing = "truncated")]
    /\ UNCHANGED <<clientVars, ctxCancelled, blocked, nexts, closes, delivered, broken, last>>

\* The server ends the stream at a frame boundary.
ServerEnd ==
    /\ w.state = "Open"
    /\ ~Cancelled(w)
    /\ ~w.ended
    /\ w' = [w EXCEPT !.ended = TRUE]
    /\ UNCHANGED <<clientVars, ctxCancelled, blocked, nexts, closes, delivered, broken, last>>

CancelCtx ==
    /\ ~ctxCancelled
    /\ ctxCancelled' = TRUE
    /\ UNCHANGED <<clientVars, watchVars>>

WatchNext ==
    \/ CallNext
    \/ ResumeNext
    \/ CallClose
    \/ ServerSend
    \/ ServerEnd
    \/ CancelCtx

WatchSpec == WatchInit /\ [][WatchNext]_vars

\* A suspended read is woken when its stream has something to report.
LiveWatchSpec == WatchSpec /\ WF_vars(ResumeNext)

-----------------------------------------------------------------------------
(* Properties of the client operations (Spec) *)

IdentityOf(c) == <<c.apiGroup, c.apiVersion, c.resource, c.namespace, c.name>>
Missing(c) == {i \in 1..5 : IdentityOf(c)[i] = ""}

\* The words by which an error names each identity field.
FieldWords ==
    << <<"api", "group">>, <<"api", "version">>, <<"resource">>, <<"namespace">>,
       <<"resource", "name">> >>

Contains(msg, words) ==
    \E k \in 0..Len(msg) :
        /\ k + Len(words) <= Len(msg)
        /\ SubSeq(msg, k + 1, k + Len(words)) = words

\* Identity with every field present but field j.
OnlyMissing(j) == [i \in 1..5 |-> IF i = j THEN "" ELSE "x"]
ErrOnlyMissing(j) ==
    checkResource(OnlyMissing(j)[1], OnlyMissing(j)[2], OnlyMissing(j)[3], OnlyMissing(j)[4],
                  OnlyMissing(j)[5])

\* C1: checkResource returns no error when all five arguments are non-empty;
\* when exactly one is empty it returns a validation error whose message names
\* that field and is the message of no other single missing field.
C1_checkResource ==
    lastCall.op = "checkResource" =>
        /\ (Missing(lastCall) = {} => lastCall.err = NoErr)
        /\ \A i \in 1..5 :
              Missing(lastCall) = {i} =>
                 /\ lastCall.err.kind = "ValidationError"
                 /\ Contains(lastCall.err.msg, FieldWords[i])
                 /\ \A j \in (1..5) \ {i} : ErrOnlyMissing(j) # lastCall.err

C1_Witness ==
    /\ lastCall.op = "checkResource"
    /\ Missing(lastCall) = {4}
    /\ lastCall.err.kind = "ValidationError"

SingleObjectOps == {"Get", "Update", "Delete"}
CollectionOps == {"Create", "List", "Watch"}

\* C2: Get, Update and Delete called with an empty name return a validation
\* error and hand nothing to the dispatcher; Create, List and Watch never fail
\* for the name and build their URL with an empty name.
C2_EmptyNameRejected ==
    lastCall.client = "tpr" =>
        /\ (lastCall.op \in SingleObjectOps /\ lastCall.name = "") =>
              (lastCall.err.kind = "ValidationError" /\ lastCall.req = NoReq)
        /\ (lastCall.op \in CollectionOps /\ Missing(lastCall) \subseteq {5}) =>
              /\ lastCall.err.kind # "ValidationError"
              /\ lastCall.req.url = urlFor(lastCall.apiGroup, lastCall.apiVersion,
                                           lastCall.namespace, lastCall.resource, "")

\* C3: every ThirdPartyResources operation called with an empty apiGroup,
\* apiVersion, resource or namespace returns the validation error, hands no
\* request to the dispatcher and (Watch) returns no watcher; the step leaves
\* the requests sent and the watcher as they were.
C3_InvalidIdentityNoRequest ==
    /\ [](lastCall.client = "tpr" /\ Missing(lastCall) \cap (1..4) # {} =>
            /\ lastCall.err.kind = "ValidationError"
            /\ lastCall.req = NoReq
            /\ ~lastCall.opened)
    /\ [][(lastCall'.client = "tpr" /\ Missing(lastCall') \cap (1..4) # {}) =>
            (requests' = requests /\ w' = w)]_vars

C3_Witness ==
    /\ lastCall.client = "tpr"
    /\ lastCall.op = "Watch"
    /\ Missing(lastCall) \cap (1..4) = {4}
    /\ lastCall.err.kind = "ValidationError"
    /\ Len(requests) = 1

OneShot == {"get", "create", "delete"}

\* C4: every one-shot request of a ThirdPartyResources operation uses the JSON
\* codec, every one-shot request of a Discovery operation uses the protobuf
\* codec, and only third-party requests use the JSON codec.
C4_CodecPerClient ==
    lastCall.req.verb \in OneShot =>
        /\ (lastCall.client = "tpr" => lastCall.req.codec = jsonCodec)
        /\ (lastCall.client = "discovery" => lastCall.req.codec = pbCodec)
        /\ (lastCall.req.codec = jsonCodec => lastCall.client = "tpr")

\* C4 (amended): every one-shot request of a ThirdPartyResources operation uses
\* the JSON codec; Discovery's APIGroups, APIGroup and APIResources use the
\* protobuf codec and Discovery's Version uses the JSON codec; the JSON codec is
\* used by third-party requests and by Version only.
C4_CodecPerOperation ==
    lastCall.req.verb \in OneShot =>
        /\ (lastCall.client = "tpr" => lastCall.req.codec = jsonCodec)
        /\ (lastCall.client = "discovery" /\ lastCall.op # "Version" =>
               lastCall.req.codec = pbCodec)
        /\ (lastCall.client = "discovery" /\ lastCall.op = "Version" =>
               lastCall.req.codec = jsonCodec)
        /\ (lastCall.req.codec = jsonCodec =>
               (lastCall.client = "tpr" \/ lastCall.op = "Version"))

C4_Witness ==
    /\ lastCall.client = "discovery"
    /\ lastCall.op = "Version"
    /\ lastCall.req.verb = "get"
    /\ lastCall.req.codec = jsonCodec

-----------------------------------------------------------------------------
(* Properties of a watcher (WatchSpec) *)

EventOf(f) == [type |-> f.type]

\* A frame with sound framing whose payload the adapter in use can return:
\* APIWatcher needs the payload to decode into an APIResource.
WellFormed(f) ==
    /\ f.framing = "ok"
    /\ (w.kind = "api" => protoUnmarshal(f.raw).err = NoErr)

AllWellFormed == \A i \in 1..Len(w.arrived) : WellFormed(w.arrived[i])

\* Nobody has closed the watcher or cancelled its context.
Undisturbed == closes = 0 /\ ~ctxCancelled

\* C5: on a stream of N well-formed frames, the first N Next() calls return the
\* N events in arrival order, each call consuming exactly one frame, and the
\* call after the last frame returns a stream-closed error and no event.
C5_EventsInOrder ==
    (Undisturbed /\ AllWellFormed) =>
        /\ nexts <= Len(w.arrived) =>
              /\ Len(delivered) = nexts
              /\ w.pos = nexts
              /\ \A i \in 1..nexts : delivered[i].event = EventOf(w.arrived[i])
        /\ nexts > Len(w.arrived) =>
              /\ w.ended
              /\ Len(delivered) = Len(w.arrived)
              /\ \A i \in 1..Len(w.arrived) : delivered[i].event = EventOf(w.arrived[i])
              /\ last.op = "Next"
              /\ last.err = StreamClosedError
              /\ last.event = NilEvent

C5_Witness ==
    /\ Undisturbed
    /\ AllWellFormed
    /\ Len(w.arrived) = 2
    /\ w.arrived[1] # w.arrived[2]
    /\ nexts = 3
    /\ Len(delivered) = 2

\* C6: after Close(), every Next() called returns a stream-closed error, no
\* event and no object, without reading the stream, whatever frames are
\* unread; every Close(), the second included, returns no error; once closed
\* the watcher stays Closed.
C6_CloseThenNext ==
    /\ (last.op = "Next" /\ last.afterClose) =>
          /\ last.err = StreamClosedError
          /\ last.event = NilEvent
          /\ last.obj = NilObj
          /\ ~last.io
    /\ (last.op = "Close" => last.err = NoErr)
    /\ (closes > 0 => w.state = "Closed")

C6_Witness ==
    /\ closes = 2
    /\ last.op = "Next"
    /\ last.afterClose
    /\ w.pos < Len(w.arrived)
    /\ w.arrived[w.pos + 1].framing = "ok"

\* The last Next() of an APIWatcher read a soundly framed frame whose payload
\* does not decode into an APIResource.
PayloadDecodeFailed ==
    /\ w.kind = "api"
    /\ last.op = "Next"
    /\ last.frame # 0
    /\ w.arrived[last.frame].framing = "ok"
    /\ protoUnmarshal(w.arrived[last.frame].raw).err # NoErr

StreamErrorKinds == {"FramingError", "StreamClosed", "Cancelled"}

C8_RawPayloadReturned ==
    (w.kind = "tpr" /\ last.op = "Next" /\ last.err = NoErr) =>
        /\ last.obj # NilObj
        /\ last.obj.val = w.arrived[last.frame].raw

\* C9: a frame with a wrong magic or a truncated frame makes Next() return a
\* framing error, no event and no object; from then on the watcher is Closed,
\* and every later Next() returns an error and no event without reading any
\* following frame.
C9_FramingErrorFatal ==
    /\ (last.op = "Next" /\ last.frame # 0 /\ w.arrived[last.frame].framing # "ok") =>
          /\ last.err.kind = "FramingError"
          /\ last.event = NilEvent
          /\ last.obj = NilObj
    /\ (last.op = "Next" /\ last.afterFraming) =>
          /\ last.err # NoErr
          /\ last.event = NilEvent
          /\ last.frame = 0
    /\ broken =>
          /\ w.state = "Closed"
          /\ w.pos < Len(w.arrived)
          /\ w.arrived[w.pos + 1].framing # "ok"
          /\ Len(delivered) <= w.pos

C9_Witness ==
    /\ last.op = "Next"
    /\ last.afterFraming
    /\ w.pos + 1 < Len(w.arrived)
    /\ w.arrived[w.pos + 1].framing = "badmagic"
    /\ w.arrived[w.pos + 2].framing = "ok"

-----------------------------------------------------------------------------
(* Cancellation (LiveWatchSpec) *)

\* C10: when the context given to the watch-open is cancelled while a Next()
\* is suspended in the read, that Next() returns, with a cancellation error
\* unless the watcher was closed meanwhile, though the server sends nothing.
C10_CancelUnblocksNext ==
    (blocked /\ ctxCancelled) ~>
        (~blocked /\ last.op = "Next" /\ last.resumed
           /\ (last.err = CancelledError \/ closes > 0))

C10_Witness ==
    /\ ~blocked
    /\ last.op = "Next"
    /\ last.resumed
    /\ last.err = CancelledError
    /\ closes = 0
    /\ Len(w.arrived) = 0

====
